---- MODULE Spec2Model ----
(***************************************************************************)
(* A model of the lexical retrieval store of rag_sqlite:                   *)
(* SQLiteVectorStore (src/src/rag_sqlite/vectorstores/sqlite.py), one      *)
(* instance on a fresh database file.  The durable table `documents` is    *)
(* the variable db (rows in rowid order); self.documents and               *)
(* self.bm25_index are the variables documents and bm25_index.             *)
(*                                                                         *)
(* Texts are sequences of whitespace separated words.  Scores are the      *)
(* BM25Okapi scores in fixed point, thousandths, with k1 = 1.5, b = 0.75   *)
(* and epsilon = 0.25 (the defaults BM25Okapi is constructed with).        *)
(***************************************************************************)
EXTENDS Integers, Sequences, FiniteSets, TLC

\* ------------------------------------------------------------------ bounds
MaxId == 2
MaxBatch == 2
MaxK == 2
MaxDel == 1

\* ------------------------------------------------------------------ inputs
\* Python's None, as the empty tuple; a present value v is <<v>>
None == <<>>

Texts == { <<>>, <<"a">>, <<"A", "b">> }

Queries == { <<"a">>, <<"B", "a">>, <<"c">> }

\* a metadata mapping is a set of <<key, value>> pairs, a value being
\* <<type, content>> with type "str", "int", "list", "tuple" or "set"; a set is
\* a Python object json.dumps cannot encode
Metas == { {}, {<<"tags", <<"set", "x">>>>} }

Ks == 0 .. MaxK

SeqsUpTo(S, n) == UNION { [1..m -> S] : m \in 0..n }

Min(a, b) == IF a <= b THEN a ELSE b

Max(a, b) == IF a >= b THEN a ELSE b

\* ------------------------------------------------------------ conversions
lower(w) == CASE w = "A" -> "a" [] w = "B" -> "b" [] w = "C" -> "c" [] OTHER -> w

\* the characters str.strip() and the tokenizer treat as white space
Whitespace == { " ", "\n" }

\* word_tokenize(text.lower()): the words of the text, in lower case
word_tokenize_lower(text) ==
    LET words == SelectSeq(text, LAMBDA c : c \notin Whitespace)
    IN  [i \in 1..Len(words) |-> lower(words[i])]

json_encodable(metadata) == \A p \in metadata : p[2][1] # "set"

\* json.dumps writes a tuple as a JSON array, which json.loads reads as a list
json_dumps_metadata(metadata) ==
    [json |-> { <<p[1], IF p[2][1] = "tuple" THEN <<"list", p[2][2]>> ELSE p[2]>> :
                  p \in metadata }]

json_dumps_tokens(tokens) == [json |-> tokens]

json_loads(s) == s.json

\* ------------------------------------------------------------- BM25Okapi
\* 1000 * ln(m + 0.5), rounded, for m = 0, 1, 2, ...
LnTable == << -693, 405, 916, 1253, 1504, 1705, 1872, 2015, 2140, 2251 >>

LnHalf(m) == LnTable[m + 1]

\* division rounding toward zero, b > 0
TDiv(a, b) == IF a >= 0 THEN a \div b ELSE -((-a) \div b)

RECURSIVE SumSeq(_)
SumSeq(s) == IF s = <<>> THEN 0 ELSE s[1] + SumSeq(Tail(s))

RECURSIVE SumOver(_, _)
SumOver(f, S) ==
    IF S = {} THEN 0
    ELSE LET x == CHOOSE y \in S : TRUE IN f[x] + SumOver(f, S \ {x})

WordsOf(document) == { document[i] : i \in 1..Len(document) }

\* frequencies of one document: word -> number of occurrences
Frequencies(document) ==
    [w \in WordsOf(document) |-> Cardinality({i \in 1..Len(document) : document[i] = w})]

\* BM25.__init__ / _initialize / BM25Okapi._calc_idf.  Yields
\* [ok |-> FALSE] where the constructor raises ZeroDivisionError: an empty
\* corpus (avgdl) or a corpus without any word (average_idf).
BM25Okapi(corpus) ==
    LET corpus_size == Len(corpus)
        doc_len     == [i \in 1..corpus_size |-> Len(corpus[i])]
        num_doc     == SumSeq(doc_len)
        doc_freqs   == [i \in 1..corpus_size |-> Frequencies(corpus[i])]
        vocabulary  == UNION { WordsOf(corpus[i]) : i \in 1..corpus_size }
        nd          == [w \in vocabulary |->
                          Cardinality({i \in 1..corpus_size : w \in DOMAIN doc_freqs[i]})]
        raw_idf     == [w \in vocabulary |-> LnHalf(corpus_size - nd[w]) - LnHalf(nd[w])]
        idf_sum     == SumOver(raw_idf, vocabulary)
    IN  IF corpus_size = 0 \/ vocabulary = {}
        THEN [ok |-> FALSE]
        ELSE LET average_idf == TDiv(idf_sum, Cardinality(vocabulary))
                 eps         == TDiv(average_idf, 4)
             IN  [ok |-> TRUE,
                  index |-> [corpus_size |-> corpus_size,
                             num_doc     |-> num_doc,
                             doc_len     |-> doc_len,
                             doc_freqs   |-> doc_freqs,
                             average_idf |-> average_idf,
                             idf |-> [w \in vocabulary |->
                                        IF raw_idf[w] < 0 THEN eps ELSE raw_idf[w]]]]

\* one query term's contribution to the score of document i:
\*   idf * f * (k1 + 1) / (f + k1 * (1 - b + b * doc_len / avgdl))
\* with avgdl = num_doc / corpus_size, numerator and denominator times 8 * num_doc
TermScore(index, i, q) ==
    LET f   == IF q \in DOMAIN index.doc_freqs[i] THEN index.doc_freqs[i][q] ELSE 0
        idf == IF q \in DOMAIN index.idf THEN index.idf[q] ELSE 0
    IN  TDiv(idf * 20 * f * index.num_doc,
             8 * f * index.num_doc + 3 * index.num_doc
               + 9 * index.doc_len[i] * index.corpus_size)

\* BM25Okapi.get_scores: one score per document of the index
get_scores(index, query_tokens) ==
    [i \in 1..index.corpus_size |->
        SumSeq([j \in 1..Len(query_tokens) |-> TermScore(index, i, query_tokens[j])])]

\* sorted(range(len(scores)), key=lambda i: scores[i], reverse=True):
\* a stable sort, so equal scores keep ascending index order
RECURSIVE InsertDesc(_, _, _)
InsertDesc(sorted, i, scores) ==
    IF sorted = <<>> THEN <<i>>
    ELSE IF scores[sorted[1]] >= scores[i]
         THEN <<sorted[1]>> \o InsertDesc(Tail(sorted), i, scores)
         ELSE <<i>> \o sorted

\* the sort without reverse=True
RECURSIVE InsertAsc(_, _, _)
InsertAsc(sorted, i, scores) ==
    IF sorted = <<>> THEN <<i>>
    ELSE IF scores[sorted[1]] <= scores[i]
         THEN <<sorted[1]>> \o InsertAsc(Tail(sorted), i, scores)
         ELSE <<i>> \o sorted

RECURSIVE SortedAsc(_, _)
SortedAsc(n, scores) ==
    IF n = 0 THEN <<>> ELSE InsertAsc(SortedAsc(n - 1, scores), n, scores)

RECURSIVE SortedDesc(_, _)
SortedDesc(n, scores) ==
    IF n = 0 THEN <<>> ELSE InsertDesc(SortedDesc(n - 1, scores), n, scores)

\* the slice s[:k]
Slice(s, k) ==
    IF k >= 0 THEN SubSeq(s, 1, Min(k, Len(s)))
    ELSE SubSeq(s, 1, Max(Len(s) + k, 0))

\* ------------------------------------------------------------------ state
VARIABLES
    db,          \* table documents, rows [id, text, metadata, tokens] in rowid order
    documents,   \* self.documents
    bm25_index,  \* self.bm25_index: None or <<index>>
    nextId,      \* the next identifier uuid4 yields (identifiers are never repeated)
    returned,    \* the ids add_texts calls have returned
    deleted,     \* the returned ids handed to a delete call that has returned
    lastOp,      \* the last call: its arguments, its outcome and what it returned
    pages,       \* split_by_sections' argument: page number -> page text
    sections,    \* what split_by_sections returned
    pc,          \* "start" before split_by_sections has run, "done" after
    ragOp,       \* the last RAGProcessor call: its arguments and what it returned
    documents2,  \* self.documents of a second instance on the same database file
    bm25_index2  \* self.bm25_index of the second instance

vars == <<db, documents, bm25_index, nextId, returned, deleted, lastOp>>

splitVars == <<pages, sections, pc>>

instance2Vars == <<documents2, bm25_index2>>

allVars == <<vars, splitVars, ragOp, instance2Vars>>

\* the variables a single SQLiteVectorStore does not use
notStore == <<splitVars, ragOp, instance2Vars>>

\* lastOp before any call.  ntexts, nmetas (-1 for None), failpos and ret are
\* the lengths of add_texts' arguments, the position of the pair it failed on
\* and the ids it returned; ids are delete's argument; q, k and result are
\* similarity_search's; before is the store as it was when a call that failed
\* in add_texts' loop, or a similarity_search call, started
NoOp == [op |-> "init", outcome |-> "ok", ntexts |-> 0, nmetas |-> 0, failpos |-> 0,
         ret |-> <<>>, ids |-> {}, q |-> <<>>, k |-> 0, result |-> <<>>, before |-> <<>>]

RowIds(rows) == { rows[i].id : i \in 1..Len(rows) }

Range(s) == { s[i] : i \in 1..Len(s) }

RECURSIVE SelectRows(_, _)
SelectRows(rows, keep) ==
    IF rows = <<>> THEN <<>>
    ELSE IF rows[1].id \in keep
         THEN <<rows[1]>> \o SelectRows(Tail(rows), keep)
         ELSE SelectRows(Tail(rows), keep)

\* the instance's fields
Self == [documents |-> documents, bm25_index |-> bm25_index]

\* the table and the instance's fields
Store == <<[db |-> db, documents |-> documents, bm25_index |-> bm25_index]>>

\* load_documents returning early on an empty table, before it resets
\* self.documents
load_documents_early_return(self, rows) ==
    LET built == BM25Okapi([i \in 1..Len(rows) |-> json_loads(rows[i].tokens)])
    IN  IF rows = <<>>
        THEN [documents |-> self.documents, bm25_index |-> self.bm25_index,
              outcome |-> "ok"]
        ELSE [documents |-> [i \in 1..Len(rows) |->
                               [id       |-> rows[i].id,
                                text     |-> rows[i].text,
                                metadata |-> json_loads(rows[i].metadata),
                                tokens   |-> json_loads(rows[i].tokens)]],
              bm25_index |-> IF built.ok THEN <<built.index>> ELSE self.bm25_index,
              outcome |-> IF built.ok THEN "ok" ELSE "ZeroDivisionError"]

\* SQLiteVectorStore.load_documents: the fields of the instance self and the
\* outcome of the call, the table holding rows
load_documents(self, rows) ==
    LET docs == [i \in 1..Len(rows) |->
                    [id       |-> rows[i].id,
                     text     |-> rows[i].text,
                     metadata |-> json_loads(rows[i].metadata),
                     tokens   |-> json_loads(rows[i].tokens)]]
        tokenized_docs == [i \in 1..Len(rows) |-> json_loads(rows[i].tokens)]
        built == BM25Okapi(tokenized_docs)
    IN  IF tokenized_docs = <<>>
        THEN [documents |-> docs, bm25_index |-> self.bm25_index, outcome |-> "ok"]
        ELSE IF built.ok
             THEN [documents |-> docs, bm25_index |-> <<built.index>>, outcome |-> "ok"]
             ELSE [documents |-> docs, bm25_index |-> self.bm25_index,
                   outcome |-> "ZeroDivisionError"]

\* SQLiteVectorStore.__init__ on a new database file
Init ==
    /\ db = <<>>
    /\ documents = load_documents([documents |-> <<>>, bm25_index |-> None], <<>>).documents
    /\ bm25_index = load_documents([documents |-> <<>>, bm25_index |-> None], <<>>).bm25_index
    /\ nextId = 1
    /\ returned = {}
    /\ deleted = {}
    /\ lastOp = NoOp
    /\ pages = <<>> /\ sections = <<>> /\ pc = "idle"
    /\ ragOp = <<>>
    /\ documents2 = <<>> /\ bm25_index2 = None

\* the pairs zip(texts, metadatas) yields
Zipped(texts, metadatas) ==
    LET metas == IF metadatas = None THEN [i \in 1..Len(texts) |-> {}] ELSE metadatas[1]
    IN  [i \in 1..Min(Len(texts), Len(metas)) |-> [text |-> texts[i], metadata |-> metas[i]]]

\* the position of the first pair whose INSERT parameters cannot be built
\* (json.dumps raises TypeError), 0 when there is none
FailPos(pairs) ==
    LET bad == { i \in 1..Len(pairs) : ~json_encodable(pairs[i].metadata) }
    IN  IF bad = {} THEN 0 ELSE CHOOSE i \in bad : \A j \in bad : i <= j

\* the row one INSERT of add_texts writes
NewRow(pair, doc_id) ==
    [id       |-> doc_id,
     text     |-> pair.text,
     metadata |-> json_dumps_metadata(pair.metadata),
     tokens   |-> json_dumps_tokens(word_tokenize_lower(pair.text))]

\* the INSERTs committed one by one: those before the failing pair stay
InsertBatchNoRollback(rows, pairs, first_id) ==
    LET n == IF FailPos(pairs) # 0 THEN FailPos(pairs) - 1 ELSE Len(pairs)
    IN  rows \o [i \in 1..n |-> NewRow(pairs[i], first_id + i - 1)]

\* the table after the `with sqlite3.connect(...) as conn:` block of add_texts:
\* the connection commits the INSERTs on a normal exit and rolls them back
\* when the block is left by an exception
InsertBatch(rows, pairs, first_id) ==
    IF FailPos(pairs) # 0 THEN rows
    ELSE rows \o [i \in 1..Len(pairs) |-> NewRow(pairs[i], first_id + i - 1)]

\* SQLiteVectorStore.add_texts
add_texts(texts, metadatas) ==
    LET pairs == Zipped(texts, metadatas)
        ids   == [i \in 1..Len(pairs) |-> nextId + i - 1]
        rows  == InsertBatch(db, pairs, nextId)
        ld    == load_documents(Self, rows)
        call  == [NoOp EXCEPT !.op = "add_texts", !.ntexts = Len(texts),
                     !.nmetas = IF metadatas = None THEN -1 ELSE Len(metadatas[1])]
    IN  /\ FailPos(pairs) # 0 \/ nextId + Len(pairs) - 1 <= MaxId
        /\ IF FailPos(pairs) # 0
           THEN /\ db' = rows
                /\ lastOp' = [call EXCEPT !.outcome = "TypeError", !.failpos = FailPos(pairs),
                                 !.before = Store]
                /\ UNCHANGED <<documents, bm25_index, nextId, returned>>
           ELSE /\ db' = rows
                /\ documents' = ld.documents
                /\ bm25_index' = ld.bm25_index
                /\ nextId' = nextId + Len(pairs)
                /\ returned' = IF ld.outcome = "ok" THEN returned \cup Range(ids) ELSE returned
                /\ lastOp' = [call EXCEPT !.outcome = ld.outcome,
                                 !.ret = IF ld.outcome = "ok" THEN ids ELSE <<>>]
        /\ UNCHANGED deleted

\* what similarity_search(query, k) returns when self.documents is docs and
\* self.bm25_index is index
SearchResults(docs, index, query, k) ==
    IF index = None THEN <<>>
    ELSE LET query_tokens  == word_tokenize_lower(query)
             scores        == get_scores(index[1], query_tokens)
             top_k_indices == Slice(SortedDesc(Len(scores), scores), k)
             hits          == SelectSeq(top_k_indices, LAMBDA idx : idx <= Len(docs))
         IN  [j \in 1..Len(hits) |->
                 [id       |-> docs[hits[j]].id,
                  text     |-> docs[hits[j]].text,
                  metadata |-> docs[hits[j]].metadata,
                  score    |-> scores[hits[j]]]]

\* similarity_search taking the documents it returns off self.documents
similarity_search_consuming(query, k) ==
    LET result == SearchResults(documents, bm25_index, query, k)
        taken  == { result[j].id : j \in 1..Len(result) }
    IN  /\ lastOp' = [NoOp EXCEPT !.op = "similarity_search", !.q = query, !.k = k,
                         !.result = result, !.before = Store]
        /\ documents' = SelectSeq(documents, LAMBDA d : d.id \notin taken)
        /\ UNCHANGED <<db, bm25_index, nextId, returned, deleted>>

\* SQLiteVectorStore.similarity_search
similarity_search(query, k) ==
    /\ lastOp' = [NoOp EXCEPT !.op = "similarity_search", !.q = query, !.k = k,
                     !.result = SearchResults(documents, bm25_index, query, k),
                     !.before = Store]
    /\ UNCHANGED <<db, documents, bm25_index, nextId, returned, deleted>>

\* the table after DELETE FROM documents WHERE id IN (ids)
DeleteRows(rows, ids) == SelectRows(rows, RowIds(rows) \ Range(ids))

\* delete without its closing self.load_documents()
delete_without_reload(ids) ==
    /\ db' = DeleteRows(db, ids)
    /\ deleted' = deleted \cup (Range(ids) \cap returned)
    /\ lastOp' = [NoOp EXCEPT !.op = "delete", !.ids = Range(ids)]
    /\ UNCHANGED <<documents, bm25_index, nextId, returned>>

\* SQLiteVectorStore.delete
delete(ids) ==
    LET rows == DeleteRows(db, ids)
        ld   == load_documents(Self, rows)
    IN  /\ db' = rows
        /\ documents' = ld.documents
        /\ bm25_index' = ld.bm25_index
        /\ deleted' = IF ld.outcome = "ok" THEN deleted \cup (Range(ids) \cap returned)
                      ELSE deleted
        /\ lastOp' = [NoOp EXCEPT !.op = "delete", !.outcome = ld.outcome, !.ids = Range(ids)]
        /\ UNCHANGED <<nextId, returned>>

Next ==
    \/ \E texts \in SeqsUpTo(Texts, MaxBatch) :
         \E metadatas \in {None} \cup { <<m>> : m \in SeqsUpTo(Metas, MaxBatch) } :
            add_texts(texts, metadatas) /\ UNCHANGED notStore
    \/ \E query \in Queries : \E k \in Ks :
         similarity_search(query, k) /\ UNCHANGED notStore
    \/ \E ids \in SeqsUpTo(0..(nextId - 1), MaxDel) : delete(ids) /\ UNCHANGED notStore

Spec == Init /\ [][Next]_allVars

\* ------------------------------------------------- calls with a negative k
NegKs == { -1 }

NegNext ==
    \/ Next
    \/ \E query \in Queries : \E k \in NegKs :
         similarity_search(query, k) /\ UNCHANGED notStore

SpecNegK == Init /\ [][NegNext]_allVars

\* ------------------------------------------ two instances on one database
\* the fields of the second instance
Self2 == [documents |-> documents2, bm25_index |-> bm25_index2]

\* add_texts called on the second instance
add_texts2(texts, metadatas) ==
    LET pairs == Zipped(texts, metadatas)
        ids   == [i \in 1..Len(pairs) |-> nextId + i - 1]
        rows  == InsertBatch(db, pairs, nextId)
        ld    == load_documents(Self2, rows)
        call  == [NoOp EXCEPT !.op = "add_texts2", !.ntexts = Len(texts),
                     !.nmetas = IF metadatas = None THEN -1 ELSE Len(metadatas[1])]
    IN  /\ FailPos(pairs) # 0 \/ nextId + Len(pairs) - 1 <= MaxId
        /\ IF FailPos(pairs) # 0
           THEN /\ db' = rows
                /\ lastOp' = [call EXCEPT !.outcome = "TypeError", !.failpos = FailPos(pairs)]
                /\ UNCHANGED <<documents2, bm25_index2, nextId, returned>>
           ELSE /\ db' = rows
                /\ documents2' = ld.documents
                /\ bm25_index2' = ld.bm25_index
                /\ nextId' = nextId + Len(pairs)
                /\ returned' = IF ld.outcome = "ok" THEN returned \cup Range(ids) ELSE returned
                /\ lastOp' = [call EXCEPT !.outcome = ld.outcome,
                                 !.ret = IF ld.outcome = "ok" THEN ids ELSE <<>>]
        /\ UNCHANGED <<deleted, documents, bm25_index>>

\* similarity_search called on the second instance
similarity_search2(query, k) ==
    /\ lastOp' = [NoOp EXCEPT !.op = "similarity_search2", !.q = query, !.k = k,
                     !.result = SearchResults(documents2, bm25_index2, query, k)]
    /\ UNCHANGED <<db, documents, bm25_index, nextId, returned, deleted, instance2Vars>>

\* delete called on the second instance
delete2(ids) ==
    LET rows == DeleteRows(db, ids)
        ld   == load_documents(Self2, rows)
    IN  /\ db' = rows
        /\ documents2' = ld.documents
        /\ bm25_index2' = ld.bm25_index
        /\ deleted' = IF ld.outcome = "ok" THEN deleted \cup (Range(ids) \cap returned)
                      ELSE deleted
        /\ lastOp' = [NoOp EXCEPT !.op = "delete2", !.outcome = ld.outcome, !.ids = Range(ids)]
        /\ UNCHANGED <<nextId, returned, documents, bm25_index>>

\* the calls on either instance, one at a time
TwoNext ==
    \/ \E texts \in SeqsUpTo(Texts, MaxBatch) :
         add_texts(texts, None) /\ UNCHANGED notStore
    \/ \E query \in Queries : \E k \in Ks :
         similarity_search(query, k) /\ UNCHANGED notStore
    \/ \E ids \in SeqsUpTo(0..(nextId - 1), MaxDel) : delete(ids) /\ UNCHANGED notStore
    \/ \E texts \in SeqsUpTo(Texts, MaxBatch) :
         add_texts2(texts, None) /\ UNCHANGED <<splitVars, ragOp>>
    \/ \E query \in Queries : \E k \in Ks :
         similarity_search2(query, k) /\ UNCHANGED <<splitVars, ragOp>>
    \/ \E ids \in SeqsUpTo(0..(nextId - 1), MaxDel) :
         delete2(ids) /\ UNCHANGED <<splitVars, ragOp>>

\* two instances constructed on a new database file
SpecTwo == Init /\ [][TwoNext]_allVars

\* ------------------------------------------- TextProcessor (the splitter)
\* A page text is a sequence of units: a header (a whole line that one of the
\* patterns of detect_section_headers matches), a word of body text, or white
\* space.  The headers and the words of the pages are all different, so that
\* every unit of a section can be traced to its place.
MaxPageLen == 3

PageNums == { 0, 2 }

HeaderTable == << <<"H01", "H02", "H03", "H04", "H05">>,
                  <<"H21", "H22", "H23", "H24", "H25">> >>

BodyTable == << <<"a", "b", "c", "d", "e">>, <<"f", "g", "h", "i", "j">> >>

PageIndex(p) == 1 + Cardinality({ q \in PageNums : q < p })

HeaderTexts == UNION { Range(HeaderTable[j]) : j \in 1..Len(HeaderTable) }

\* the text of page p with a header, a word or a blank at each place
PageText(p, kinds) ==
    [i \in 1..Len(kinds) |->
        CASE kinds[i] = "H" -> HeaderTable[PageIndex(p)][i]
          [] kinds[i] = "x" -> BodyTable[PageIndex(p)][i]
          [] OTHER          -> " "]

KindSeqs == UNION { [1..n -> {"H", "x", " "}] : n \in 1..MaxPageLen }

\* the page mappings extract_text_from_pdf can yield: some pages absent, no
\* page with an empty text
PageMappings ==
    UNION { { [p \in S |-> PageText(p, f[p])] : f \in [S -> KindSeqs] } :
            S \in SUBSET PageNums }

\* TextProcessor.detect_section_headers: the (start_pos, header_text) pairs
\* in ascending start_pos, positions counted from 0
detect_section_headers(text) ==
    LET at == SelectSeq([i \in 1..Len(text) |-> i], LAMBDA i : text[i] \in HeaderTexts)
    IN  [j \in 1..Len(at) |-> [pos |-> at[j] - 1, header_text |-> text[at[j]]]]

\* str.strip()
RECURSIVE LStrip(_)
LStrip(s) == IF s # <<>> /\ s[1] \in Whitespace THEN LStrip(Tail(s)) ELSE s

RECURSIVE RStrip(_)
RStrip(s) ==
    IF s # <<>> /\ s[Len(s)] \in Whitespace THEN RStrip(SubSeq(s, 1, Len(s) - 1)) ELSE s

strip(s) == RStrip(LStrip(s))

\* the slice text[from:to], positions counted from 0
Chars(text, from, to) == SubSeq(text, from + 1, Min(to, Len(text)))

\* sections with the section appended without looking at its content
AppendAlways(secs, section) == Append(secs, section)

\* `if current_section["content"].strip(): sections.append(current_section)`
AppendIfContent(secs, section) ==
    IF strip(section.content) # <<>> THEN Append(secs, section) ELSE secs

\* the text after the last header, one character short
RemainingOffByOne(page_text, last_pos) ==
    IF last_pos < Len(page_text) THEN Chars(page_text, last_pos + 1, Len(page_text)) ELSE <<>>

\* `if last_pos < len(page_text): ... page_text[last_pos:]`
Remaining(page_text, last_pos) ==
    IF last_pos < Len(page_text) THEN Chars(page_text, last_pos, Len(page_text)) ELSE <<>>

\* the body of `for pos, header_text in headers`, for the headers left;
\* st is [sections, current_section, last_pos]
RECURSIVE HeaderLoop(_, _, _, _)
HeaderLoop(st, headers, page_text, page_num) ==
    IF headers = <<>> THEN st
    ELSE LET pos    == headers[1].pos
             before == IF pos > 0
                       THEN [st.current_section EXCEPT
                               !.content = @ \o <<"\n", "\n">> \o Chars(page_text, st.last_pos, pos)]
                       ELSE st.current_section
         IN  HeaderLoop([sections        |-> AppendIfContent(st.sections, before),
                         current_section |-> [header     |-> headers[1].header_text,
                                              content    |-> <<>>,
                                              start_page |-> page_num],
                         last_pos        |-> pos + 1],
                        Tail(headers), page_text, page_num)

\* one turn of `for page_num, page_text in sorted(pages.items())`;
\* acc is [sections, current_section]
SplitPage(acc, page_num, page_text) ==
    LET current == IF acc.sections = <<>> /\ acc.current_section.content = <<>>
                   THEN [acc.current_section EXCEPT !.start_page = page_num]
                   ELSE acc.current_section
        headers == detect_section_headers(page_text)
        st      == HeaderLoop([sections |-> acc.sections, current_section |-> current,
                               last_pos |-> 0],
                              headers, page_text, page_num)
    IN  IF headers = <<>>
        THEN [sections        |-> acc.sections,
              current_section |-> [current EXCEPT
                                     !.content = @ \o <<"\n", "\n">> \o page_text]]
        ELSE [sections        |-> st.sections,
              current_section |-> [st.current_section EXCEPT
                                     !.content = @ \o Remaining(page_text, st.last_pos)]]

\* the page numbers in ascending order
RECURSIVE SortedPages(_)
SortedPages(S) ==
    IF S = {} THEN <<>>
    ELSE LET m == CHOOSE p \in S : \A q \in S : p <= q
         IN  <<m>> \o SortedPages(S \ {m})

RECURSIVE SplitPages(_, _, _)
SplitPages(acc, order, pgs) ==
    IF order = <<>> THEN acc
    ELSE SplitPages(SplitPage(acc, order[1], pgs[order[1]]), Tail(order), pgs)

\* TextProcessor.split_by_sections
split_by_sections(pgs) ==
    LET acc == SplitPages([sections |-> <<>>,
                           current_section |-> [header |-> "Introduction", content |-> <<>>,
                                                start_page |-> 0]],
                          SortedPages(DOMAIN pgs), pgs)
    IN  AppendIfContent(acc.sections, acc.current_section)

\* `texts = [section["content"] for section in sections]` of add_document
SectionTexts(secs) == [i \in 1..Len(secs) |-> secs[i].content]

\* split_by_sections on any page mapping
SplitInit ==
    /\ pages \in PageMappings
    /\ sections = <<>>
    /\ pc = "start"
    /\ db = <<>> /\ documents = <<>> /\ bm25_index = None /\ nextId = 1
    /\ returned = {} /\ deleted = {} /\ lastOp = NoOp
    /\ ragOp = <<>>
    /\ documents2 = <<>> /\ bm25_index2 = None

Split ==
    /\ pc = "start"
    /\ sections' = split_by_sections(pages)
    /\ pc' = "done"
    /\ UNCHANGED <<pages, vars, ragOp, instance2Vars>>

SpecSplit == SplitInit /\ [][Split]_allVars

\* ------------------------------------------------------------ RAGProcessor
\* the paths add_document is called with
Files == { "a.pdf", "b.pdf", "missing.pdf", "notes.txt" }

\* `file_path.lower().endswith('.pdf')`
is_pdf(file_path) == file_path \in { "a.pdf", "b.pdf", "missing.pdf" }

\* TextProcessor.extract_text_from_pdf: the text of each page that has some,
\* the empty mapping for a file that cannot be read
extract_text_from_pdf(file_path) ==
    CASE file_path = "a.pdf" -> (0 :> <<"a", "H02", "b">>)
      [] file_path = "b.pdf" -> (0 :> <<"H01">> @@ 2 :> <<"c">>)
      [] OTHER               -> <<>>

\* the metadata add_document is called with: None, a mapping with the key
\* "header", a mapping with a tuple as a value
DocMetas == { None,
              << {<<"header", <<"str", "mine">>>>, <<"author", <<"str", "me">>>>} >>,
              << {<<"tags", <<"tuple", "x">>>>} >> }

\* what the external answer service does with a prompt
LLMReplies == { "an answer", "APIError" }

NoInfoAnswer == "I couldn't find any relevant information to answer your question."

\* ragOp before any call.  results are what similarity_search returned to
\* query, llm_called whether query ran the chain, answer and sources what it
\* returned; added[id] is the call of add_document that stored the row id: the
\* metadata it was given, its file_path and the section of the row
NoRagOp == [op |-> "init", outcome |-> "ok", results |-> <<>>, llm_called |-> FALSE,
            answer |-> "", sources |-> <<>>, added |-> <<>>]

Keys(d) == { p[1] : p \in d }

\* dict.update that keeps the value of a key the mapping already has
update_keeping_existing(d, other) == d \cup { p \in other : p[1] \notin Keys(d) }

\* `d.update(other)` on a copy of d
update(d, other) == { p \in d : p[1] \notin Keys(other) } \cup other

\* the mapping add_document builds for one section
section_metadata(metadata, file_path, section) ==
    update(metadata, { <<"file_path",  <<"str", file_path>>>>,
                       <<"header",     <<"str", section.header>>>>,
                       <<"start_page", <<"int", section.start_page>>>> })

\* RAGProcessor.add_document; metadata is None or <<mapping>>
add_document(file_path, metadata) ==
    LET pgs       == extract_text_from_pdf(file_path)
        secs      == split_by_sections(pgs)
        texts     == SectionTexts(secs)
        given     == IF metadata = None THEN {} ELSE metadata[1]
        metadatas == [i \in 1..Len(secs) |-> section_metadata(given, file_path, secs[i])]
        calls     == [i \in 1..Len(secs) |->
                         [given |-> given, file_path |-> file_path, section |-> secs[i]]]
    IN  IF ~is_pdf(file_path)
        THEN /\ ragOp' = [NoRagOp EXCEPT !.op = "add_document", !.outcome = "ValueError",
                             !.added = ragOp.added]
             /\ UNCHANGED <<vars, splitVars, instance2Vars>>
        ELSE /\ add_texts(texts, <<metadatas>>)
             /\ pages' = pgs
             /\ sections' = secs
             /\ ragOp' = [NoRagOp EXCEPT !.op = "add_document", !.outcome = lastOp'.outcome,
                             !.added = IF Len(db') > Len(db) THEN ragOp.added \o calls
                                       ELSE ragOp.added]
             /\ UNCHANGED <<pc, instance2Vars>>

\* the "sources" of query's return value
Sources(results) ==
    [j \in 1..Len(results) |->
        [text |-> results[j].text, metadata |-> results[j].metadata,
         score |-> results[j].score]]

\* query running the chain before it looks at the results
query_llm_first(question, k, reply) ==
    LET results == SearchResults(documents, bm25_index, question, k)
    IN  /\ similarity_search(question, k)
        /\ ragOp' = IF reply = "APIError"
                    THEN [NoRagOp EXCEPT !.op = "query", !.outcome = "APIError",
                             !.results = results, !.llm_called = TRUE,
                             !.added = ragOp.added]
                    ELSE IF results = <<>>
                    THEN [NoRagOp EXCEPT !.op = "query", !.results = results,
                             !.llm_called = TRUE,
                             !.answer = NoInfoAnswer, !.added = ragOp.added]
                    ELSE [NoRagOp EXCEPT !.op = "query", !.results = results,
                             !.llm_called = TRUE, !.answer = reply,
                             !.sources = Sources(results), !.added = ragOp.added]
        /\ UNCHANGED <<splitVars, instance2Vars>>

\* RAGProcessor.query; reply is what self.qa_chain.run does if it is called
query(question, k, reply) ==
    LET results == SearchResults(documents, bm25_index, question, k)
    IN  /\ similarity_search(question, k)
        /\ ragOp' = IF results = <<>>
                    THEN [NoRagOp EXCEPT !.op = "query", !.results = results,
                             !.answer = NoInfoAnswer, !.added = ragOp.added]
                    ELSE IF reply = "APIError"
                    THEN [NoRagOp EXCEPT !.op = "query", !.outcome = "APIError",
                             !.results = results, !.llm_called = TRUE,
                             !.added = ragOp.added]
                    ELSE [NoRagOp EXCEPT !.op = "query", !.results = results,
                             !.llm_called = TRUE, !.answer = reply,
                             !.sources = Sources(results), !.added = ragOp.added]
        /\ UNCHANGED <<splitVars, instance2Vars>>

\* RAGProcessor.__init__ over a store on a new database file
DocInit ==
    /\ db = <<>> /\ documents = <<>> /\ bm25_index = None /\ nextId = 1
    /\ returned = {} /\ deleted = {} /\ lastOp = NoOp
    /\ pages = <<>> /\ sections = <<>> /\ pc = "idle"
    /\ ragOp = NoRagOp
    /\ documents2 = <<>> /\ bm25_index2 = None

DocNext ==
    \/ \E file_path \in Files : \E metadata \in DocMetas : add_document(file_path, metadata)
    \/ \E question \in Queries : \E k \in Ks : \E reply \in LLMReplies :
         query(question, k, reply)

SpecDoc == DocInit /\ [][DocNext]_allVars

\* ------------------------------------------------------------------ claims
TokensOf(rows) == [i \in 1..Len(rows) |-> json_loads(rows[i].tokens)]

\* what similarity_search(query, k) returns in the current state
Search(q, k) == SearchResults(documents, bm25_index, q, k)

ResultIds(result) == { result[j].id : j \in 1..Len(result) }

AllSearchesUnchanged ==
    \A q \in Queries : \A k \in Ks :
        SearchResults(documents', bm25_index', q, k) = Search(q, k)

\* C1: after every add_texts or delete call that has returned, bm25_index is
\* built from exactly the token lists of the rows of the table, in the order of
\* self.documents, and covers no document when the table is empty.
C1_IndexCoversPersistedRows ==
    (lastOp.op \in {"add_texts", "delete"} /\ lastOp.outcome = "ok") =>
        /\ [i \in 1..Len(documents) |-> documents[i].tokens] = TokensOf(db)
        /\ IF db = <<>> THEN bm25_index = None
           ELSE /\ BM25Okapi(TokensOf(db)).ok
                /\ bm25_index = <<BM25Okapi(TokensOf(db)).index>>

\* C2: an id that add_texts returned and a completed delete call was given is
\* the id of no result of any later similarity_search, for every query and k.
C2_DeletedIdNeverReturned ==
    \A q \in Queries : \A k \in Ks : ResultIds(Search(q, k)) \cap deleted = {}

\* C2 witness: a search returns documents after a returned id has been deleted
C2_Witness ==
    /\ deleted # {}
    /\ lastOp.op = "similarity_search"
    /\ lastOp.result # <<>>

\* C3: on a non-empty corpus similarity_search(q, k), k >= 0, returns at most
\* k results, their scores non-increasing from first to last.
C3_AtMostKSortedDescending ==
    db # <<>> =>
        \A q \in Queries : \A k \in Ks :
            k >= 0 =>
                LET r == Search(q, k)
                IN  /\ Len(r) <= k
                    /\ \A j \in 1..(Len(r) - 1) : r[j].score >= r[j + 1].score

\* C3 witness: a search returned two results, the first scoring strictly higher
C3_Witness ==
    /\ db # <<>>
    /\ lastOp.op = "similarity_search"
    /\ Len(lastOp.result) >= 2
    /\ lastOp.result[1].score > lastOp.result[2].score

\* C4: on a non-empty corpus every result of similarity_search has a score
\* greater than or equal to zero.
C4_ScoresNonNegative ==
    db # <<>> =>
        \A q \in Queries : \A k \in Ks :
            \A j \in 1..Len(Search(q, k)) : Search(q, k)[j].score >= 0

\* C5: after an add_texts call that failed on a text of its batch (json.dumps
\* raising on its metadata) the table, self.documents and self.bm25_index, and
\* so the result of every search, are what they were when the call started.
C5_FailedBatchStoresNothing ==
    (lastOp.op = "add_texts" /\ lastOp.outcome = "TypeError") =>
        /\ lastOp.before = Store
        /\ \A q \in Queries : \A k \in Ks :
              Search(q, k) = SearchResults(lastOp.before[1].documents,
                                               lastOp.before[1].bm25_index, q, k)

\* C5 witness: a batch failed on its second text, on a store that has documents
C5_Witness ==
    /\ lastOp.op = "add_texts"
    /\ lastOp.outcome = "TypeError"
    /\ lastOp.failpos = 2
    /\ db # <<>>

\* C6: an add_texts call whose metadatas differ in length from its texts fails
\* and stores nothing.
C6_LengthMismatchRejected ==
    [][(lastOp'.op = "add_texts" /\ lastOp'.nmetas \notin {-1, lastOp'.ntexts}) =>
          /\ lastOp'.outcome # "ok"
          /\ db' = db]_vars

\* C7: a successful add_texts call returns one id per input text, in input
\* order, the ids distinct from each other and from every id ever in the store;
\* no two rows of the table share an id.
C7_OneFreshIdPerText ==
    /\ [](Cardinality(RowIds(db)) = Len(db))
    /\ [][\A texts \in SeqsUpTo(Texts, MaxBatch) :
            \A metadatas \in {None} \cup { <<m>> : m \in SeqsUpTo(Metas, MaxBatch) } :
               (add_texts(texts, metadatas) /\ lastOp'.outcome = "ok") =>
                  /\ Len(lastOp'.ret) = Len(texts)
                  /\ Cardinality(Range(lastOp'.ret)) = Len(lastOp'.ret)
                  /\ Range(lastOp'.ret) \cap (1..(nextId - 1)) = {}
                  /\ \A i \in 1..Len(lastOp'.ret) :
                        \E j \in 1..Len(db') :
                           db'[j].id = lastOp'.ret[i] /\ db'[j].text = texts[i]]_vars

\* C8: a delete call none of whose ids is in the store (an empty list
\* included) raises nothing and leaves the table, self.documents and the result
\* of every search as they were.
C8_DeleteAbsentIdsIsNoOp ==
    [][(lastOp'.op = "delete" /\ lastOp'.ids \cap RowIds(db) = {}) =>
          /\ lastOp'.outcome = "ok"
          /\ db' = db
          /\ documents' = documents
          /\ AllSearchesUnchanged]_vars

\* C9: with an empty corpus, never populated or emptied by delete calls,
\* similarity_search returns the empty sequence for every query and k >= 0.
C9_EmptyCorpusEmptyResult ==
    db = <<>> => \A q \in Queries : \A k \in Ks : k >= 0 => Search(q, k) = <<>>

\* C9 witness: a search on a corpus that delete calls have emptied
C9_Witness ==
    /\ db = <<>>
    /\ deleted # {}
    /\ lastOp.op = "similarity_search"
    /\ lastOp.k > 0
    /\ lastOp.result = <<>>

\* C10: after a similarity_search call the table, self.documents and
\* self.bm25_index are what they were when it started, and the same call made
\* again returns the same results in the same order.
C10_SearchReadOnlyRepeatable ==
    lastOp.op = "similarity_search" =>
        /\ lastOp.before = Store
        /\ Search(lastOp.q, lastOp.k) = lastOp.result

\* C10 witness: a search that returned two documents
C10_Witness ==
    /\ lastOp.op = "similarity_search"
    /\ Len(lastOp.result) >= 2

RECURSIVE Flatten(_)
Flatten(ss) == IF ss = <<>> THEN <<>> ELSE ss[1] \o Flatten(Tail(ss))

\* the words of the pages that are neither white space nor part of a header,
\* in ascending page and offset
BodyOf(pgs) ==
    LET order == SortedPages(DOMAIN pgs)
    IN  Flatten([j \in 1..Len(order) |->
                   SelectSeq(pgs[order[j]],
                             LAMBDA c : c \notin HeaderTexts /\ c \notin Whitespace)])

\* the words of the emitted sections, in the order of emission
EmittedBody(secs) ==
    Flatten([j \in 1..Len(secs) |->
               SelectSeq(secs[j].content, LAMBDA c : c \notin Whitespace)])

\* the page on which a header text stands
PageOfHeader(pgs, h) == CHOOSE p \in DOMAIN pgs : h \in Range(pgs[p])

\* the pages that have a word of body text
PagesWithBody(pgs) ==
    { p \in DOMAIN pgs : \E i \in 1..Len(pgs[p]) :
                            pgs[p][i] \notin HeaderTexts /\ pgs[p][i] \notin Whitespace }

\* C13: split_by_sections loses and duplicates no body text: the words outside
\* the detected headers are, each exactly once and in ascending page and
\* offset, the words of the emitted sections.
C13_NoBodyTextLostOrDuplicated ==
    pc = "done" => EmittedBody(sections) = BodyOf(pages)

\* C13 witness: two sections emitted, one of them with words of both pages
C13_Witness ==
    /\ pc = "done"
    /\ Len(sections) >= 2
    /\ \E j \in 1..Len(sections) :
          /\ Range(sections[j].content) \cap Range(BodyTable[1]) # {}
          /\ Range(sections[j].content) \cap Range(BodyTable[2]) # {}

\* C14: every emitted section has as start_page the page on which its header
\* was matched, also when the header is the last text of its page, and the
\* implicit "Introduction" section starts on the first page with content.
C14_StartPageIsHeaderPage ==
    pc = "done" =>
        \A j \in 1..Len(sections) :
            IF sections[j].header = "Introduction"
            THEN \/ sections[j].start_page = SortedPages(DOMAIN pages)[1]
                 \/ /\ PagesWithBody(pages) # {}
                    /\ sections[j].start_page = SortedPages(PagesWithBody(pages))[1]
            ELSE sections[j].start_page = PageOfHeader(pages, sections[j].header)

\* C15: no emitted section, hence no text add_document hands to add_texts, has
\* a content that is empty after stripping; a page of white space and a header
\* followed by no content produce no section.
C15_NoEmptySection ==
    pc = "done" =>
        /\ \A j \in 1..Len(sections) : strip(sections[j].content) # <<>>
        /\ \A j \in 1..Len(sections) : strip(SectionTexts(sections)[j]) # <<>>
        /\ BodyOf(pages) = <<>> => sections = <<>>

\* C15 witness: a page of white space and a page that ends with a header,
\* split into no section
C15_Witness ==
    /\ pc = "done"
    /\ sections = <<>>
    /\ \E p \in DOMAIN pages : Range(pages[p]) \subseteq Whitespace
    /\ \E p \in DOMAIN pages : pages[p][Len(pages[p])] \in HeaderTexts

\* the mapping that is to be stored for a section: the caller's metadata, and
\* over it the section's file_path, header and start_page
Expected(call) ==
    { p \in call.given : p[1] \notin {"file_path", "header", "start_page"} }
        \cup { <<"file_path",  <<"str", call.file_path>>>>,
               <<"header",     <<"str", call.section.header>>>>,
               <<"start_page", <<"int", call.section.start_page>>>> }

\* a mapping whose tuples have become lists
TuplesAsLists(d) ==
    { <<p[1], IF p[2][1] = "tuple" THEN <<"list", p[2][2]>> ELSE p[2]>> : p \in d }

C12_LlmCalledIffResults ==
    ragOp.op = "query" =>
        /\ ragOp.results = lastOp.result
        /\ ragOp.llm_called <=> ragOp.results # <<>>
        /\ ragOp.results = <<>> =>
              /\ ragOp.outcome = "ok"
              /\ ragOp.answer = NoInfoAnswer
              /\ ragOp.sources = <<>>
        /\ (ragOp.results # <<>> /\ ragOp.outcome = "ok") =>
              /\ Len(ragOp.sources) = Len(ragOp.results)
              /\ \A j \in 1..Len(ragOp.results) :
                    /\ ragOp.sources[j].text = ragOp.results[j].text
                    /\ ragOp.sources[j].metadata = ragOp.results[j].metadata
                    /\ ragOp.sources[j].score = ragOp.results[j].score

\* C12 witness: a query that found nothing in a corpus that has documents
C12_Witness ==
    /\ ragOp.op = "query"
    /\ db # <<>>
    /\ ragOp.results = <<>>
    /\ ~ragOp.llm_called
    /\ ragOp.answer = NoInfoAnswer

\* C16: similarity_search called with a negative k fails with an error and
\* returns no list of results.
C16_NegativeKRejected ==
    (lastOp.op = "similarity_search" /\ lastOp.k < 0) => lastOp.outcome # "ok"

\* what a search on the second instance returns
Search2(q, k) == SearchResults(documents2, bm25_index2, q, k)

\* C17: with two instances on one database file, their mutations one at a
\* time, no search on either instance returns a document that has been
\* deleted, through whichever instance.
C17_SearchObservesLastMutation ==
    \A q \in Queries : \A k \in Ks :
        /\ ResultIds(Search(q, k)) \cap deleted = {}
        /\ ResultIds(Search2(q, k)) \cap deleted = {}

\* C18: on a corpus of N >= 1 documents similarity_search(q, k), k >= 0,
\* returns min(k, N) results with pairwise distinct ids that are all in the
\* table, so that query gives its fixed no-information answer only when the
\* corpus is empty or k = 0.
C18_ExactlyMinKNResults ==
    db # <<>> =>
        \A q \in Queries : \A k \in Ks :
            /\ Len(Search(q, k)) = Min(k, Len(db))
            /\ Cardinality(ResultIds(Search(q, k))) = Len(Search(q, k))
            /\ ResultIds(Search(q, k)) \subseteq RowIds(db)
            /\ Search(q, k) = <<>> => k = 0

====
